---- MODULE Spec2Model ----
(***************************************************************************)
(* Model of the package build orchestrator of build-linux.py               *)
(* (class LinuxBuilder): download_file, download_package, extract_archive, *)
(* run_command, build_package, build_toolchain, build_system_packages and  *)
(* build.  The program is sequential; `pc` is the position of the single   *)
(* thread of control, `history` the calls of the components made so far    *)
(* with their results, `trace` the external operations (network, archive,  *)
(* file system, subprocess) of the latest of these calls.                  *)
(*                                                                         *)
(* Names of files, directories, packages and versions are sequences of     *)
(* one-character tokens (an archive suffix such as ".tar" is one token),   *)
(* so that the substring, prefix and suffix tests of the code are computed *)
(* and not assumed.  A URL is the sequence of its "/"-separated segments.  *)
(***************************************************************************)
EXTENDS Integers, Sequences, FiniteSets, TLC

VARIABLES
    entry,        \* the public method the caller invoked
    config,       \* self.config: toolchain_packages and packages
    loaded,       \* the configuration as load_config returned it
    files,        \* archive files of sources_dir: name -> content or NoFile
    dirs,         \* directories of sources_dir (names)
    pc,           \* position of the thread of control
    phase,        \* "toolchain" | "system" | "direct" | "none"
    idx,          \* index of the current package in the list of the phase
    k,            \* index of the current build step inside build_package
    source_dir,   \* build_package's local source_dir (NoDir before location)
    pkgResult,    \* outcome of the current build_package call
    tcResult,     \* outcome of build_toolchain
    sysResult,    \* outcome of build_system_packages
    buildResult,  \* outcome of build
    calls,        \* number of direct download_package calls made so far
    history,      \* the component calls returned so far, in order
    trace         \* the external operations of the latest component call

vars == <<entry, config, loaded, files, dirs, pc, phase, idx, k, source_dir,
          pkgResult, tcResult, sysResult, buildResult, calls, history,
          trace>>

-----------------------------------------------------------------------------
(* Bounds of the model *)

\* longest toolchain_packages list
MaxToolchain == 2
\* longest packages list
MaxPackages == 1
\* number of direct download_package calls of the Fetcher scenario
MaxCalls == 2

-----------------------------------------------------------------------------
(* Values *)

None == "None"
NoFile == "NoFile"
NoDir == <<"?">>

\* contents a download can deliver, and a truncated download
Contents == {"c1", "c2"}
Partial == "partial"

\* get_file_hash: the hex digest of a content (injective on the contents used)
get_file_hash(c) ==
    CASE c = "c1" -> "d1"
      [] c = "c2" -> "d2"
      [] OTHER -> "dp"

\* Python truthiness of an Optional[str]: None and "" are false
Truthy(h) == h /= None /\ h /= ""

ZName == <<"z">>
ZVersion == <<"1">>
YName == <<"y">>
YVersion == <<"2">>

ZArc == <<"z", "-", "1", ".tar", ".gz">>
YArc == <<"y", "-", "2", ".zip">>
FileUniverse == {ZArc, YArc}

ZUrl == << <<"h">>, ZArc >>
YUrl == << <<"h">>, YArc >>

ZDir == <<"z", "-", "1">>
ZxDir == <<"z", "x">>
YDir == <<"y", "-", "2">>
DirUniverse == {ZDir, ZxDir, YDir}

DotTokens == {".tar", ".tgz", ".gz", ".zip"}

-----------------------------------------------------------------------------
(* Pure helpers of the string and path operations the code uses *)

\* `sub in s` of Python strings
Contains(s, sub) ==
    \E i \in 0..(Len(s) - Len(sub)) :
        \A j \in 1..Len(sub) : s[i + j] = sub[j]

\* s.startswith(pre)
StartsWith(s, pre) ==
    /\ Len(pre) <= Len(s)
    /\ \A j \in 1..Len(pre) : s[j] = pre[j]

\* f"{name}-{version}"
NameVersion(name, version) == name \o <<"-">> \o version

\* url.split("/")[-1]: the text after the last "/", empty for a trailing "/"
SplitLast(url) == url[Len(url)]

\* Path(url).name: the last non-empty path component
RECURSIVE PathName(_)
PathName(url) ==
    IF Len(url) = 0 THEN <<>>
    ELSE IF url[Len(url)] /= <<>> THEN url[Len(url)]
    ELSE PathName(SubSeq(url, 1, Len(url) - 1))

\* Path.suffix: the last dot-component of the name
Suffix(fname) ==
    IF Len(fname) > 1 /\ fname[Len(fname)] \in DotTokens
    THEN fname[Len(fname)] ELSE ""

\* extract_archive's dispatch on the file name
IsTarName(fname) ==
    \/ Suffix(fname) \in {".tar", ".tgz"}
    \/ \E i \in 1..(Len(fname) - 1) :
          fname[i] = ".tar" /\ fname[i + 1] \in DotTokens
IsZipName(fname) == Suffix(fname) = ".zip"

\* (sources_dir / fname).exists(); sources_dir / "" is sources_dir itself
Exists(fs, fname) ==
    IF fname = <<>> THEN TRUE
    ELSE fname \in FileUniverse /\ fs[fname] /= NoFile

-----------------------------------------------------------------------------
(* Package declarations: a dict is its key set plus the values of the keys *)

Pkg(keys, name, version, url, hash, md5, build, build_commands) ==
    [keys |-> keys, name |-> name, version |-> version, url |-> url,
     hash |-> hash, md5 |-> md5, build |-> build,
     build_commands |-> build_commands]

\* package.get("hash"), package.get("md5")
GetHash(p) == IF "hash" \in p.keys THEN p.hash ELSE None
GetMd5(p) == IF "md5" \in p.keys THEN p.md5 ELSE None
\* package.get("build", []), package.get("build_commands", [])
GetBuild(p) == IF "build" \in p.keys THEN p.build ELSE <<>>
GetBuildCommands(p) ==
    IF "build_commands" \in p.keys THEN p.build_commands ELSE <<>>

Base == {"name", "version", "url"}

\* toolchain.toml entries
T1 == Pkg(Base \cup {"hash", "build_commands"}, ZName, ZVersion, ZUrl,
          "d1", None, <<>>, <<"A", "B">>)
T2 == Pkg(Base, YName, YVersion, YUrl, None, None, <<>>, <<>>)
T3 == Pkg(Base \cup {"build_commands"}, YName, YVersion, YUrl,
          None, None, <<>>, <<>>)
T4 == Pkg(Base \cup {"md5", "build"}, ZName, ZVersion, ZUrl,
          None, "d1", <<"A">>, <<>>)
ToolchainCatalogue == {T1, T2, T3, T4}

\* [[packages]] entries of the main configuration
P1 == Pkg(Base \cup {"md5", "build"}, ZName, ZVersion, ZUrl,
          None, "d1", <<"A", "B", "C">>, <<>>)
P2 == Pkg(Base \cup {"hash", "build_commands"}, YName, YVersion, YUrl,
          "d1", None, <<>>, <<"A">>)
P3 == Pkg({"name", "version", "build"}, YName, YVersion, YUrl,
          None, None, <<"A">>, <<>>)
PackageCatalogue == {P1, P2, P3}

\* the lists of at most n declarations of S, none listed twice
ListsUpTo(S, n) ==
    {s \in UNION {[1..m -> S] : m \in 0..n} :
        \A i \in DOMAIN s : \A j \in DOMAIN s : i /= j => s[i] /= s[j]}


-----------------------------------------------------------------------------
(* self.config *)

\* self.config.get("toolchain_packages", [])
ToolchainPackages ==
    IF "toolchain_packages" \in config.keys
    THEN config.toolchain_packages ELSE <<>>

\* self.config.get("packages", [])
Packages == IF "packages" \in config.keys THEN config.packages ELSE <<>>

\* the list the running phase iterates, and its current element
CurList == IF phase = "toolchain" THEN ToolchainPackages ELSE Packages
Cur == CurList[idx]

\* package["build"] = package.get("build_commands", []) on the current
\* toolchain entry: the dict of the configuration itself is assigned to
SetBuild(cfg, i) ==
    [cfg EXCEPT !.toolchain_packages[i] =
        [@ EXCEPT !.keys = @ \cup {"build"},
                  !.build = GetBuildCommands(cfg.toolchain_packages[i])]]

-----------------------------------------------------------------------------
(* The record of one external operation *)

\* `pre` is the set of directories the cache held when an extraction began
Ev(op, out, f, h, c) ==
    [op |-> op, phase |-> phase, idx |-> idx, k |-> k,
     out |-> out, f |-> f, h |-> h, c |-> c, pre |-> {}]

\* the commands that ran and exited with 0, in the order they ran
RECURSIVE Ran(_)
Ran(t) ==
    IF t = <<>> THEN <<>>
    ELSE LET e == t[Len(t)]
             front == Ran(SubSeq(t, 1, Len(t) - 1))
         IN IF e.op = "run_command" /\ e.out = "ok"
            THEN Append(front, e.h) ELSE front

\* the number of urlretrieve calls among the operations t
RECURSIVE NetCount(_)
NetCount(t) ==
    IF t = <<>> THEN 0
    ELSE NetCount(SubSeq(t, 1, Len(t) - 1)) +
         (IF t[Len(t)].op = "urlretrieve" THEN 1 ELSE 0)

\* the content that the operations t downloaded and download_file accepted
RECURSIVE Accepted(_)
Accepted(t) ==
    IF t = <<>> THEN None
    ELSE LET e == t[Len(t)] IN
         IF e.op = "download_file" /\ e.out = "True" THEN e.c
         ELSE Accepted(SubSeq(t, 1, Len(t) - 1))

\* the record of one returned component call: its result, the archive name
\* it worked on, its downloads and, for a package build, the steps that
\* succeeded
Call(op, i, out, f, t) ==
    [op |-> op, phase |-> phase, idx |-> i, out |-> out, f |-> f,
     net |-> NetCount(t), c |-> Accepted(t), ran |-> Ran(t)]

\* the archive name a call for package p works on, if p has a url
UrlName(p) == IF "url" \in p.keys THEN PathName(p.url) ELSE <<>>

\* what urllib.request.urlretrieve can do: fail before writing, fail after
\* writing a truncated file, or write a complete content
NetOutcomes == {"error", Partial} \cup Contents

\* a download_file that never compares the digest
HashMismatch_never(expected_hash, content) == FALSE

\* the hash test of download_file
HashMismatch(expected_hash, content) ==
    Truthy(expected_hash) /\ get_file_hash(content) /= expected_hash

\* download_file(url, dest, expected_hash) when urlretrieve does n:
\* the returned value, the files afterwards, the operations performed
download_file(fs, dest, expected_hash, n) ==
    IF n = "error"
    THEN [ok |-> FALSE, files |-> fs,
          events |-> << Ev("urlretrieve", "error", dest, expected_hash, None),
                        Ev("download_file", "False", dest, expected_hash, None) >>]
    ELSE IF n = Partial
    THEN [ok |-> FALSE, files |-> [fs EXCEPT ![dest] = Partial],
          events |-> << Ev("urlretrieve", "error", dest, expected_hash, Partial),
                        Ev("download_file", "False", dest, expected_hash, None) >>]
    ELSE IF HashMismatch(expected_hash, n)
    THEN [ok |-> FALSE, files |-> [fs EXCEPT ![dest] = NoFile],
          events |-> << Ev("urlretrieve", "ok", dest, expected_hash, n),
                        Ev("download_file", "False", dest, expected_hash, n) >>]
    ELSE [ok |-> TRUE, files |-> [fs EXCEPT ![dest] = n],
          events |-> << Ev("urlretrieve", "ok", dest, expected_hash, n),
                        Ev("download_file", "True", dest, expected_hash, n) >>]

\* a download_package that never finds the archive in the cache
AlreadyDownloaded_never(fs, filename) == FALSE

\* the cache test of download_package
AlreadyDownloaded(fs, filename) == Exists(fs, filename)

\* download_package(package) when urlretrieve, if reached, does n
download_package(fs, p, n) ==
    IF "url" \notin p.keys
    THEN [ok |-> FALSE, files |-> fs, events |-> <<>>]
    ELSE LET filename == PathName(p.url) IN
         IF AlreadyDownloaded(fs, filename)
         THEN [ok |-> TRUE, files |-> fs, events |-> <<>>]
         ELSE download_file(fs, filename, GetHash(p), n)

Bool(b) == IF b THEN "True" ELSE "False"

-----------------------------------------------------------------------------
(* Initial states: the configuration as loaded, the source cache as found *)

Configs ==
    {[keys |-> ks, toolchain_packages |-> tps, packages |-> pks] :
        ks \in SUBSET {"toolchain_packages", "packages"},
        tps \in ListsUpTo(ToolchainCatalogue, MaxToolchain),
        pks \in ListsUpTo(PackageCatalogue, MaxPackages)}

\* a key that is missing has no list
WellFormed(cfg) ==
    /\ "toolchain_packages" \notin cfg.keys => cfg.toolchain_packages = <<>>
    /\ "packages" \notin cfg.keys => cfg.packages = <<>>

\* the archives found in the cache: none, all of them, or a z archive whose
\* content is not the declared one
NoFiles == [f \in FileUniverse |-> NoFile]
AllFiles == [f \in FileUniverse |-> "c1"]
StaleZ == [f \in FileUniverse |-> IF f = ZArc THEN "c2" ELSE NoFile]

\* the source cache as a run finds it: archives and the directories that
\* earlier runs left
InitCaches ==
    {[files |-> NoFiles, dirs |-> {}],
     [files |-> AllFiles, dirs |-> {}],
     [files |-> AllFiles, dirs |-> {ZDir}],
     [files |-> StaleZ, dirs |-> {ZxDir, YDir}],
     [files |-> NoFiles, dirs |-> {ZxDir, YDir}]}

Init ==
    /\ entry \in {"build", "download_package"}
    /\ IF entry = "build"
       THEN /\ config \in {cfg \in Configs : WellFormed(cfg)}
            /\ pc = "build"
       ELSE /\ config = [keys |-> {}, toolchain_packages |-> <<>>,
                         packages |-> <<>>]
            /\ pc = "caller"
    /\ loaded = config
    /\ \E cache \in InitCaches :
          /\ files = cache.files
          /\ dirs = cache.dirs
    /\ phase = IF entry = "build" THEN "none" ELSE "direct"
    /\ idx = 0
    /\ k = 0
    /\ source_dir = NoDir
    /\ pkgResult = None
    /\ tcResult = None
    /\ sysResult = None
    /\ buildResult = None
    /\ calls = 0
    /\ history = <<>>
    /\ trace = <<>>

-----------------------------------------------------------------------------
(* A caller of the Fetcher alone: download_package(p), MaxCalls times *)

CallDownloadPackage ==
    /\ pc = "caller"
    /\ calls < MaxCalls
    /\ \E p \in ToolchainCatalogue \cup PackageCatalogue, n \in NetOutcomes :
          LET r == download_package(files, p, n) IN
          /\ files' = r.files
          /\ trace' = r.events
          /\ history' = Append(history,
                 Call("download_package", calls + 1, Bool(r.ok), UrlName(p),
                      r.events))
    /\ calls' = calls + 1
    /\ UNCHANGED <<entry, loaded, config, dirs, pc, phase, idx, k, source_dir,
                   pkgResult, tcResult, sysResult, buildResult>>

-----------------------------------------------------------------------------
(* build(): environment staging *)

\* what a step that can raise does
Raises == {"ok", "raise"}

\* environment staging called before the try block: its exception escapes
setup_lfs_environment_outside_try ==
    /\ pc = "build"
    /\ \E out \in Raises :
          /\ history' = Append(history,
                 Call("setup_lfs_environment", 0, out, <<>>, <<>>))
          /\ IF out = "ok"
             THEN /\ pc' = "build_toolchain"
                  /\ phase' = "toolchain"
                  /\ UNCHANGED buildResult
             ELSE /\ pc' = "done"
                  /\ buildResult' = "raised"
                  /\ UNCHANGED phase
    /\ UNCHANGED <<entry, loaded, config, files, dirs, idx, k, source_dir,
                   pkgResult, tcResult, sysResult, calls, trace>>

setup_lfs_environment ==
    /\ pc = "build"
    /\ \E out \in Raises :
          /\ history' = Append(history,
                 Call("setup_lfs_environment", 0, out, <<>>, <<>>))
          /\ IF out = "ok"
             THEN /\ pc' = "build_toolchain"
                  /\ phase' = "toolchain"
                  /\ UNCHANGED buildResult
             ELSE /\ pc' = "done"
                  /\ buildResult' = "False"
                  /\ UNCHANGED phase
    /\ UNCHANGED <<entry, loaded, config, files, dirs, idx, k, source_dir,
                   pkgResult, tcResult, sysResult, calls, trace>>

-----------------------------------------------------------------------------
(* build_toolchain() *)

\* the guard on the list
build_toolchain ==
    /\ pc = "build_toolchain"
    /\ IF Len(ToolchainPackages) = 0
       THEN /\ tcResult' = "False"
            /\ pc' = "tc_return"
            /\ UNCHANGED idx
       ELSE /\ idx' = 1
            /\ pc' = "tc_fetch"
            /\ UNCHANGED tcResult
    /\ UNCHANGED <<history, entry, loaded, config, files, dirs, phase, k, source_dir,
                   pkgResult, sysResult, buildResult, calls, trace>>

\* a pre-fetch loop that stops after its first iteration
MoreToFetch_never(i) == FALSE

\* the pre-fetch loop has a further entry after entry i
MoreToFetch(i) == i < Len(ToolchainPackages)

\* one iteration of "Download all toolchain packages first"
ToolchainFetch ==
    /\ pc = "tc_fetch"
    /\ \E n \in NetOutcomes :
          LET r == download_package(files, Cur, n) IN
          /\ files' = r.files
          /\ trace' = r.events
          /\ history' = Append(history,
                 Call("download_package", idx, Bool(r.ok), UrlName(Cur),
                      r.events))
          /\ IF r.ok
             THEN /\ UNCHANGED tcResult
                  /\ IF MoreToFetch(idx)
                     THEN idx' = idx + 1 /\ pc' = "tc_fetch"
                     ELSE idx' = 1 /\ pc' = "tc_build"
             ELSE \* the error message reads package['name']
                  /\ tcResult' = IF "name" \in Cur.keys
                                 THEN "False" ELSE "raised"
                  /\ pc' = "tc_return"
                  /\ UNCHANGED idx
    /\ UNCHANGED <<entry, loaded, config, dirs, phase, k, source_dir,
                   pkgResult, sysResult, buildResult, calls>>

\* the test that skips an entry of the build loop
SkipsEntry(p) == "build_commands" \notin p.keys

\* a `continue` that stays at the entry it skips
SkipTo_same(i) == i

\* `continue`: the loop goes on with the entry after entry i
SkipTo(i) == i + 1

\* "Build toolchain packages in order": an entry that is skipped
ToolchainSkip ==
    /\ pc = "tc_build"
    /\ idx <= Len(ToolchainPackages)
    /\ SkipsEntry(Cur)
    /\ idx' = SkipTo(idx)
    /\ UNCHANGED <<history, entry, loaded, config, files, dirs, pc, phase, k, source_dir,
                   pkgResult, tcResult, sysResult, buildResult, calls, trace>>

\* an entry that is built: the log line, the assignment of package["build"]
\* and the call of build_package
ToolchainCallBuild ==
    /\ pc = "tc_build"
    /\ idx <= Len(ToolchainPackages)
    /\ ~SkipsEntry(Cur)
    /\ IF {"name", "version"} \subseteq Cur.keys
       THEN /\ config' = SetBuild(config, idx)
            /\ pc' = "pkg_enter"
            /\ pkgResult' = None
            /\ trace' = <<>>
            /\ UNCHANGED tcResult
       ELSE /\ tcResult' = "raised"
            /\ pc' = "tc_return"
            /\ UNCHANGED <<config, pkgResult, trace>>
    /\ UNCHANGED <<entry, loaded, files, dirs, phase, idx, k, source_dir,
                   sysResult, buildResult, calls, history>>

\* a loop that goes on after a failed package
PackageFailed_never(r) == FALSE

\* "if not self.build_package(package)", in both phase drivers
PackageFailed(r) == r /= "True"

\* the value build_package returned to the toolchain loop
ToolchainAfterBuild ==
    /\ pc = "pkg_return"
    /\ phase = "toolchain"
    /\ IF ~PackageFailed(pkgResult)
       THEN /\ idx' = idx + 1
            /\ pc' = "tc_build"
            /\ UNCHANGED tcResult
       ELSE /\ tcResult' = pkgResult
            /\ pc' = "tc_return"
            /\ UNCHANGED idx
    /\ history' = Append(history,
           Call("build_package", idx, pkgResult, UrlName(Cur), trace))
    /\ UNCHANGED <<entry, loaded, config, files, dirs, phase, k, source_dir,
                   pkgResult, sysResult, buildResult, calls, trace>>

\* the loop is exhausted: "Toolchain build complete"
ToolchainDone ==
    /\ pc = "tc_build"
    /\ idx > Len(ToolchainPackages)
    /\ tcResult' = "True"
    /\ pc' = "tc_return"
    /\ UNCHANGED <<history, entry, loaded, config, files, dirs, phase, idx, k, source_dir,
                   pkgResult, sysResult, buildResult, calls, trace>>

-----------------------------------------------------------------------------
(* build_package(package), for the current package of the running phase *)

\* a cache test that never finds the archive
ArchiveMissing_always(fs, archive_name) == TRUE

\* "if not archive_path.exists()"
ArchiveMissing(fs, archive_name) == ~Exists(fs, archive_name)

\* "Download source": the reads of name, version and url, the cache test and
\* the download of an archive that is absent
build_package ==
    /\ pc = "pkg_enter"
    /\ IF ~(Base \subseteq Cur.keys)
       THEN /\ pkgResult' = "raised"
            /\ pc' = "pkg_return"
            /\ UNCHANGED <<files, trace>>
       ELSE LET archive_name == SplitLast(Cur.url) IN
            IF ~ArchiveMissing(files, archive_name)
            THEN /\ pc' = "pkg_rmstale"
                 /\ UNCHANGED <<files, trace, pkgResult>>
            ELSE \E n \in NetOutcomes :
                    LET r == download_file(files, archive_name,
                                           GetMd5(Cur), n) IN
                    /\ files' = r.files
                    /\ trace' = trace \o r.events
                    /\ IF r.ok
                       THEN pc' = "pkg_rmstale" /\ UNCHANGED pkgResult
                       ELSE pc' = "pkg_return" /\ pkgResult' = "False"
    /\ k' = 0
    /\ source_dir' = NoDir
    /\ UNCHANGED <<history, entry, loaded, config, dirs, phase, idx,
                   tcResult, sysResult, buildResult, calls>>

\* "Extract source", first half: removal of the directory name-version
RemoveStaleTree ==
    /\ pc = "pkg_rmstale"
    /\ LET extract_dir == NameVersion(Cur.name, Cur.version) IN
       IF extract_dir \in dirs
       THEN \E out \in Raises :
               /\ trace' = Append(trace,
                      Ev("rmtree_stale", out, extract_dir, None, None))
               /\ IF out = "ok"
                  THEN /\ dirs' = dirs \ {extract_dir}
                       /\ pc' = "pkg_extract"
                       /\ UNCHANGED pkgResult
                  ELSE /\ pkgResult' = "raised"
                       /\ pc' = "pkg_return"
                       /\ UNCHANGED dirs
       ELSE /\ pc' = "pkg_extract"
            /\ UNCHANGED <<dirs, trace, pkgResult>>
    /\ UNCHANGED <<history, entry, loaded, config, files, phase, idx, k, source_dir,
                   tcResult, sysResult, buildResult, calls>>

\* the directories an extraction, complete or interrupted, leaves behind
ExtractSets == {{}} \cup {{d} : d \in DirUniverse}

\* a test that lets a failed extraction pass
ExtractFailed_never(out) == FALSE

\* "if not self.extract_archive(archive_path, self.sources_dir)"
ExtractFailed(out) == out /= "ok"

\* extract_archive(archive_path, sources_dir), second half of "Extract source"
extract_archive ==
    /\ pc = "pkg_extract"
    /\ LET archive_name == SplitLast(Cur.url) IN
       IF IsTarName(archive_name) \/ IsZipName(archive_name)
       THEN \E out \in {"ok", "error"}, created \in ExtractSets :
               /\ dirs' = dirs \cup created
               /\ trace' = Append(trace,
                      [Ev("extract_archive", out, archive_name, None, None)
                          EXCEPT !.pre = dirs])
               /\ IF ~ExtractFailed(out)
                  THEN pc' = "pkg_locate" /\ UNCHANGED pkgResult
                  ELSE pc' = "pkg_return" /\ pkgResult' = "False"
       ELSE /\ trace' = Append(trace,
                   Ev("extract_archive", "unsupported", archive_name, None,
                      None))
            /\ pc' = "pkg_return"
            /\ pkgResult' = "False"
            /\ UNCHANGED dirs
    /\ UNCHANGED <<history, entry, loaded, config, files, phase, idx, k, source_dir,
                   tcResult, sysResult, buildResult, calls>>

\* the two directory filters of "Find extracted directory"
MatchNameVersion(ds, name, version) ==
    {d \in ds : Contains(d, name) /\ Contains(d, version)}
MatchPrefix(ds, name) == {d \in ds : StartsWith(d, name)}

\* a location that only looks at the prefix
ExtractedDirs_prefix_only(ds, name, version) == MatchPrefix(ds, name)

\* extracted_dirs after the two filters
ExtractedDirs(ds, name, version) ==
    IF MatchNameVersion(ds, name, version) /= {}
    THEN MatchNameVersion(ds, name, version)
    ELSE MatchPrefix(ds, name)

\* "Find extracted directory": iterdir lists in no particular order, so
\* extracted_dirs[0] is any element of extracted_dirs
LocateTree ==
    /\ pc = "pkg_locate"
    /\ \E out \in Raises :
          IF out = "raise"
          THEN /\ trace' = Append(trace, Ev("locate", "raise", <<>>, None, None))
               /\ pkgResult' = "raised"
               /\ pc' = "pkg_return"
               /\ UNCHANGED <<source_dir, k>>
          ELSE LET extracted_dirs ==
                       ExtractedDirs(dirs, Cur.name, Cur.version) IN
               IF extracted_dirs = {}
               THEN /\ trace' = Append(trace,
                           Ev("locate", "False", <<>>, None, None))
                    /\ pkgResult' = "False"
                    /\ pc' = "pkg_return"
                    /\ UNCHANGED <<source_dir, k>>
               ELSE \E d \in extracted_dirs :
                       /\ trace' = Append(trace,
                              Ev("locate", "True", d, None, None))
                       /\ source_dir' = d
                       /\ k' = 1
                       /\ pc' = "pkg_steps"
                       /\ UNCHANGED pkgResult
    /\ UNCHANGED <<history, entry, loaded, config, files, dirs, phase, idx,
                   tcResult, sysResult, buildResult, calls>>

\* what subprocess.run can do with a command
CommandOutcomes == {"ok", "nonzero", "launch_error"}

\* run_command that takes a command that could not be launched for a success
run_command_launch_error_passes(out) == out /= "nonzero"

\* run_command that does not look at the exit status
run_command_ignores_status(out) == out /= "launch_error"

\* run_command: true exactly for a command that ran and exited with 0
run_command(out) == out = "ok"

\* build_commands of build_package
build_commands == GetBuild(Cur)

\* "Execute build commands": one iteration of the loop
RunStep ==
    /\ pc = "pkg_steps"
    /\ k <= Len(build_commands)
    /\ \E out \in CommandOutcomes :
          /\ trace' = Append(trace,
                 Ev("run_command", out, source_dir,
                    build_commands[k], None))
          /\ IF run_command(out)
             THEN /\ k' = k + 1
                  /\ UNCHANGED <<pc, pkgResult>>
             ELSE /\ pkgResult' = "False"
                  /\ pc' = "pkg_return"
                  /\ UNCHANGED k
    /\ UNCHANGED <<history, entry, loaded, config, files, dirs, phase, idx, source_dir,
                   tcResult, sysResult, buildResult, calls>>

\* "Cleanup source directory", reached when the loop is exhausted
Cleanup ==
    /\ pc = "pkg_steps"
    /\ k > Len(build_commands)
    /\ dirs' = dirs \ {source_dir}
    /\ trace' = Append(trace, Ev("rmtree", "ok", source_dir, None, None))
    /\ pkgResult' = "True"
    /\ pc' = "pkg_return"
    /\ UNCHANGED <<history, entry, loaded, config, files, phase, idx, k, source_dir,
                   tcResult, sysResult, buildResult, calls>>

-----------------------------------------------------------------------------
(* build_system_packages() *)

\* the loop calls build_package for the next package
SystemCallBuild ==
    /\ pc = "sys_loop"
    /\ idx <= Len(Packages)
    /\ pc' = "pkg_enter"
    /\ pkgResult' = None
    /\ trace' = <<>>
    /\ UNCHANGED <<entry, loaded, config, files, dirs, phase, idx, k, source_dir,
                   tcResult, sysResult, buildResult, calls, history>>

\* the value build_package returned to the loop
SystemAfterBuild ==
    /\ pc = "pkg_return"
    /\ phase = "system"
    /\ IF ~PackageFailed(pkgResult)
       THEN /\ idx' = idx + 1
            /\ pc' = "sys_loop"
            /\ UNCHANGED sysResult
       ELSE /\ sysResult' = pkgResult
            /\ pc' = "sys_return"
            /\ UNCHANGED idx
    /\ history' = Append(history,
           Call("build_package", idx, pkgResult, UrlName(Cur), trace))
    /\ UNCHANGED <<entry, loaded, config, files, dirs, phase, k, source_dir,
                   pkgResult, tcResult, buildResult, calls, trace>>

\* the loop is exhausted: "System packages build complete"
SystemDone ==
    /\ pc = "sys_loop"
    /\ idx > Len(Packages)
    /\ sysResult' = "True"
    /\ pc' = "sys_return"
    /\ UNCHANGED <<history, entry, loaded, config, files, dirs, phase, idx, k, source_dir,
                   pkgResult, tcResult, buildResult, calls, trace>>

-----------------------------------------------------------------------------
(* build(): the phases and the generation steps *)

\* a test that lets a failed toolchain phase pass
ToolchainFailed_never(r) == FALSE

\* "if not self.build_toolchain()": a false value, or an exception on its way
\* to the handler of build
ToolchainFailed(r) == r /= "True"

\* "if not self.build_toolchain(): raise", caught by build itself
AfterToolchain ==
    /\ pc = "tc_return"
    /\ IF ~ToolchainFailed(tcResult)
       THEN /\ pc' = "sys_loop"
            /\ phase' = "system"
            /\ idx' = 1
            /\ UNCHANGED buildResult
       ELSE /\ pc' = "done"
            /\ buildResult' = "False"
            /\ UNCHANGED <<phase, idx>>
    /\ UNCHANGED <<history, entry, loaded, config, files, dirs, k, source_dir,
                   pkgResult, tcResult, sysResult, calls, trace>>

\* a test that lets a failed system-packages phase pass
SystemPackagesFailed_never(r) == FALSE

\* "if not self.build_system_packages()"
SystemPackagesFailed(r) == r /= "True"

\* "if not self.build_system_packages(): raise", caught by build itself
AfterSystemPackages ==
    /\ pc = "sys_return"
    /\ IF ~SystemPackagesFailed(sysResult)
       THEN /\ pc' = "create_system_config"
            /\ phase' = "none"
            /\ UNCHANGED buildResult
       ELSE /\ pc' = "done"
            /\ buildResult' = "False"
            /\ UNCHANGED phase
    /\ UNCHANGED <<history, entry, loaded, config, files, dirs, idx, k, source_dir,
                   pkgResult, tcResult, sysResult, calls, trace>>

\* a generation step: it raises, and build returns False, or control goes on
Generate(here, next) ==
    /\ pc = here
    /\ \E out \in Raises :
          /\ history' = Append(history, Call(here, 0, out, <<>>, <<>>))
          /\ IF out = "ok"
             THEN /\ pc' = next
                  /\ buildResult' = IF next = "done" THEN "True" ELSE buildResult
             ELSE /\ pc' = "done"
                  /\ buildResult' = "False"
    /\ UNCHANGED <<entry, loaded, config, files, dirs, phase, idx, k, source_dir,
                   pkgResult, tcResult, sysResult, calls, trace>>

create_system_config == Generate("create_system_config", "create_system_users")
create_system_users == Generate("create_system_users", "create_bootloader")
create_bootloader == Generate("create_bootloader", "done")

-----------------------------------------------------------------------------

Next ==
    \/ CallDownloadPackage
    \/ setup_lfs_environment
    \/ build_toolchain
    \/ ToolchainFetch
    \/ ToolchainSkip
    \/ ToolchainCallBuild
    \/ ToolchainAfterBuild
    \/ ToolchainDone
    \/ build_package
    \/ RemoveStaleTree
    \/ extract_archive
    \/ LocateTree
    \/ RunStep
    \/ Cleanup
    \/ SystemCallBuild
    \/ SystemAfterBuild
    \/ SystemDone
    \/ AfterToolchain
    \/ AfterSystemPackages
    \/ create_system_config
    \/ create_system_users
    \/ create_bootloader

Spec == Init /\ [][Next]_vars

\* the program has one thread of control, and every external operation it
\* waits for returns: a step that can be taken is taken
FairSpec == Spec /\ WF_vars(Next)

-----------------------------------------------------------------------------
(* Vocabulary of the properties *)

Positions == 1..Len(trace)
Calls == 1..Len(history)

\* an operation that did not succeed
Failing(e) ==
    e.out \in {"False", "error", "raise", "nonzero", "launch_error",
               "unsupported"}

\* the list a phase iterates, as it is now and as it was loaded
ListOf(ph) == IF ph = "toolchain" THEN ToolchainPackages ELSE Packages
LoadedListOf(ph) ==
    IF ph = "toolchain" THEN loaded.toolchain_packages ELSE loaded.packages

\* the positions of the build steps in the operations of the current call
RunPositions == {n \in Positions : trace[n].op = "run_command"}

\* a component call op has returned out
Returned(op, out) ==
    \E n \in Calls : history[n].op = op /\ history[n].out = out

IsPrefix(s, t) == Len(s) <= Len(t) /\ \A j \in 1..Len(s) : s[j] = t[j]

Phases == {"toolchain", "system"}

\* the positions of build_package
InBuildPackage ==
    pc \in {"pkg_enter", "pkg_rmstale", "pkg_extract", "pkg_locate",
            "pkg_steps", "pkg_return"}

-----------------------------------------------------------------------------
\* C1: in build_package the build steps of a package run in their declared
\* order, each at most once (the j-th step run is the j-th declared step); a
\* step that fails is the last step run for that package, and build_package
\* then reports failure.
C1_StepsInOrderAbortOnFailure ==
    /\ \A n \in RunPositions :
          LET j == Cardinality({m \in RunPositions : m <= n})
              steps == GetBuild(ListOf(trace[n].phase)[trace[n].idx])
          IN /\ j <= Len(steps)
             /\ trace[n].h = steps[j]
             /\ trace[n].k = j
             /\ trace[n].out /= "ok" =>
                   /\ \A m \in RunPositions : m <= n
                   /\ pkgResult = "False"
                   /\ phase = trace[n].phase /\ idx = trace[n].idx
    /\ \A n \in Calls :
          history[n].op = "build_package" =>
             IsPrefix(history[n].ran,
                      GetBuild(ListOf(history[n].phase)[history[n].idx]))

\* steps [A, B, C] of which A succeeded and B failed
C1_Witness ==
    /\ phase = "system" /\ pc = "pkg_return"
    /\ GetBuild(Packages[idx]) = <<"A", "B", "C">>
    /\ \E n \in Positions :
          /\ n > 1
          /\ trace[n].op = "run_command" /\ trace[n].h = "B"
          /\ trace[n].out = "nonzero"
          /\ trace[n - 1].op = "run_command" /\ trace[n - 1].h = "A"
          /\ trace[n - 1].out = "ok"

-----------------------------------------------------------------------------
\* C2: whenever build_package has located a tree and returns after the step
\* sequence, with success or with failure, the located tree is no longer in
\* the source cache.
C2_TreeRemovedOnEveryReturn ==
    (pc = "pkg_return" /\ source_dir /= NoDir /\ pkgResult \in {"True", "False"})
        => source_dir \notin dirs

-----------------------------------------------------------------------------
\* something of the system-packages phase has happened
SystemActivity ==
    \/ phase = "system"
    \/ sysResult /= None
    \/ \E n \in Calls : history[n].phase = "system"
    \/ \E n \in Positions : trace[n].phase = "system"

\* an operation or a call of the toolchain phase failed
ToolchainFailure ==
    \/ tcResult \in {"False", "raised"}
    \/ \E n \in Calls :
          history[n].phase = "toolchain" /\ history[n].out /= "True"
    \/ \E n \in Positions : trace[n].phase = "toolchain" /\ Failing(trace[n])

\* C3: in build() the system-packages phase is invoked only after the
\* toolchain phase returned success; once an operation of the toolchain phase
\* has failed, nothing of the system-packages phase ever happens and build()
\* reports failure.
C3_SystemOnlyAfterToolchain ==
    /\ SystemActivity => tcResult = "True" /\ ~ToolchainFailure
    /\ ToolchainFailure =>
          /\ ~SystemActivity
          /\ pc = "done" => buildResult = "False"

\* the build of the second toolchain entry failed at a step, build() is over
C3_Witness ==
    /\ pc = "done" /\ buildResult = "False"
    /\ \E n \in Calls :
          /\ history[n].op = "build_package" /\ history[n].out = "False"
          /\ history[n].phase = "toolchain" /\ history[n].idx = 2
    /\ \E n \in Positions : trace[n].out = "nonzero"

-----------------------------------------------------------------------------
\* staging, both phases and the three generation steps completed
AllCompleted ==
    /\ Returned("setup_lfs_environment", "ok")
    /\ tcResult = "True"
    /\ sysResult = "True"
    /\ Returned("create_system_config", "ok")
    /\ Returned("create_system_users", "ok")
    /\ Returned("create_bootloader", "ok")

\* C4: build() ends with one boolean and never with an exception: True
\* exactly when staging, the toolchain phase, the system-packages phase and
\* the generation steps all completed, False when one of them failed or
\* raised; before it ends it has reported nothing.
C4_BuildReturnsOneBoolean ==
    entry = "build" =>
        IF pc = "done"
        THEN /\ buildResult \in {"True", "False"}
             /\ buildResult = "True" <=> AllCompleted
        ELSE buildResult = None

\* build() returned False after the system-packages phase raised
C4_Witness ==
    /\ pc = "done" /\ buildResult = "False"
    /\ tcResult = "True" /\ sysResult = "raised"

-----------------------------------------------------------------------------
GenerationSteps ==
    {"create_system_config", "create_system_users", "create_bootloader"}

\* a generation step is running or has run
GenerationActivity ==
    \/ pc \in GenerationSteps
    \/ \E n \in Calls : history[n].op \in GenerationSteps

\* C5: the generation steps of build() run only after both phases returned
\* success; once the system-packages phase has failed, or one of its
\* operations has, no generation step ever runs.
C5_GenerationOnlyAfterBothPhases ==
    /\ GenerationActivity => tcResult = "True" /\ sysResult = "True"
    /\ (\/ sysResult \in {"False", "raised"}
        \/ \E n \in Calls :
              history[n].phase = "system" /\ history[n].out /= "True"
        \/ \E n \in Positions : trace[n].phase = "system" /\ Failing(trace[n]))
          => ~GenerationActivity

\* build() is over after a system package failed at a step
C5_Witness ==
    /\ pc = "done" /\ sysResult = "False"
    /\ \E n \in Positions :
          /\ trace[n].phase = "system"
          /\ trace[n].op = "run_command" /\ trace[n].out = "nonzero"

-----------------------------------------------------------------------------
\* the download_package calls returned so far
FetchCalls ==
    {n \in Calls : history[n].op = "download_package" /\ history[n].f /= <<>>}

\* C6, as claimed: of two download_package calls with the same URL at most
\* one performs network I/O, and the second is a success without a download.
C6_SecondCallAlwaysNoOp ==
    \A m \in FetchCalls : \A n \in FetchCalls :
        (m < n /\ history[m].f = history[n].f) =>
            /\ history[m].net + history[n].net <= 1
            /\ history[n].net = 0
            /\ history[n].out = "True"

\* a step of the model is a download_package call that has returned
FetchCallStep ==
    /\ Len(history') = Len(history) + 1
    /\ history'[Len(history')].op = "download_package"
    /\ history'[Len(history')].f /= <<>>

\* C6, amended: a download_package call that finds a file at the cache path
\* of its URL returns success, downloads nothing, compares no digest and
\* leaves the cache as it is; so once a call for a URL has returned success,
\* every later call for that URL is a success without network I/O.
C6_CacheHitIsNoOp ==
    /\ [][FetchCallStep =>
            LET call == history'[Len(history')] IN
            Exists(files, call.f) =>
                /\ call.out = "True"
                /\ call.net = 0
                /\ trace' = <<>>
                /\ files' = files]_vars
    /\ [](\A m \in FetchCalls : \A n \in FetchCalls :
            (m < n /\ history[m].f = history[n].f /\ history[m].out = "True")
                => history[n].net = 0 /\ history[n].out = "True")

\* two calls for the same URL: the first downloaded, the second found the
\* file and returned success although its content is not the declared one
C6_Witness ==
    \E m \in FetchCalls : \E n \in FetchCalls :
        /\ m < n /\ history[m].f = history[n].f
        /\ history[m].net = 1 /\ history[m].out = "True"
        /\ history[n].net = 0 /\ history[n].out = "True"
        /\ files[history[n].f] = "c2"

-----------------------------------------------------------------------------
\* the latest operation is a download_file whose download completed, with an
\* expected hash given
VerifiedDownload ==
    /\ Len(trace) >= 2
    /\ trace[Len(trace)].op = "download_file"
    /\ trace[Len(trace) - 1].op = "urlretrieve"
    /\ trace[Len(trace) - 1].out = "ok"
    /\ Truthy(trace[Len(trace)].h)

\* C7: after a download_file with an expected hash whose download completed,
\* if the digest of the downloaded bytes differs from the expected hash the
\* call has returned False and no file is at the destination; if it is equal
\* the call has returned True and the downloaded file is at the destination.
C7_HashMismatchRemovesFile ==
    VerifiedDownload =>
        LET call == trace[Len(trace)]
            bytes == trace[Len(trace) - 1].c
        IN IF get_file_hash(bytes) /= call.h
           THEN call.out = "False" /\ files[call.f] = NoFile
           ELSE call.out = "True" /\ files[call.f] = bytes

\* a download whose digest differs from the expected hash has just returned
C7_Witness ==
    /\ VerifiedDownload
    /\ get_file_hash(trace[Len(trace) - 1].c) /= trace[Len(trace)].h
    /\ trace[Len(trace)].out = "False"
    /\ files[trace[Len(trace)].f] = NoFile

-----------------------------------------------------------------------------
\* the content hash a declaration gives, under `hash` or under `md5`
DeclaredHash(p) ==
    IF "hash" \in p.keys THEN p.hash
    ELSE IF "md5" \in p.keys THEN p.md5 ELSE None

\* the contents downloaded and kept for package i of phase ph: by the
\* pre-fetch of the toolchain phase or by its build_package call
FetchedFor(ph, i) ==
    {history[n].c : n \in {m \in Calls : /\ history[m].phase = ph
                                         /\ history[m].idx = i
                                         /\ history[m].c /= None}}
    \cup
    {trace[n].c : n \in {m \in Positions : /\ trace[m].op = "download_file"
                                           /\ trace[m].out = "True"
                                           /\ trace[m].phase = ph
                                           /\ trace[m].idx = i}}

\* C8: a package that declares a hash (under `hash` or `md5`) and whose
\* archive had to be fetched is extracted and built only if the content that
\* was fetched for it has the declared digest.
C8_FetchVerifiedAgainstDeclaredHash ==
    \A n \in Positions :
        (trace[n].op \in {"extract_archive", "run_command"}
            /\ trace[n].phase \in Phases) =>
            LET p == LoadedListOf(trace[n].phase)[trace[n].idx] IN
            Truthy(DeclaredHash(p)) =>
                \A c \in FetchedFor(trace[n].phase, trace[n].idx) :
                    get_file_hash(c) = DeclaredHash(p)

-----------------------------------------------------------------------------
\* an entry with no build step, under either field
MetadataOnly(p) == GetBuild(p) = <<>> /\ GetBuildCommands(p) = <<>>

\* build_package has been called for package i of phase ph
BuildStarted(ph, i) ==
    \/ phase = ph /\ idx = i /\ InBuildPackage
    \/ \E n \in Calls : /\ history[n].op = "build_package"
                        /\ history[n].phase = ph
                        /\ history[n].idx = i

\* C9: in the toolchain phase build_package is never called for an entry
\* whose build-step list is absent or empty.
C9_MetadataOnlyNeverBuilt ==
    \A i \in 1..Len(loaded.toolchain_packages) :
        MetadataOnly(loaded.toolchain_packages[i])
            => ~BuildStarted("toolchain", i)

-----------------------------------------------------------------------------
\* the value a phase returned
PhaseResult(ph) == IF ph = "toolchain" THEN tcResult ELSE sysResult

\* a build_package call for package i of phase ph ran the steps and
\* returned success
StepsRun(ph, i, steps) ==
    \E n \in Calls : /\ history[n].op = "build_package"
                     /\ history[n].phase = ph
                     /\ history[n].idx = i
                     /\ history[n].out = "True"
                     /\ history[n].ran = steps

\* C10: a phase that has reported success has run, successfully, every step
\* of every non-empty step list that a package of the phase declares under
\* `build` or under `build_commands`.
C10_SuccessMeansDeclaredStepsRan ==
    \A ph \in Phases :
        PhaseResult(ph) = "True" =>
            \A i \in 1..Len(LoadedListOf(ph)) :
                LET p == LoadedListOf(ph)[i] IN
                /\ GetBuild(p) /= <<>> => StepsRun(ph, i, GetBuild(p))
                /\ GetBuildCommands(p) /= <<>>
                      => StepsRun(ph, i, GetBuildCommands(p))

-----------------------------------------------------------------------------
\* the download_package calls of the toolchain phase returned so far
ToolchainFetches ==
    {n \in Calls : /\ history[n].op = "download_package"
                   /\ history[n].phase = "toolchain"}

\* the build_package calls of the toolchain phase returned so far
ToolchainBuilds ==
    {n \in Calls : /\ history[n].op = "build_package"
                   /\ history[n].phase = "toolchain"}

\* build_package has been entered in the toolchain phase
ToolchainBuildStarted ==
    \/ ToolchainBuilds /= {}
    \/ phase = "toolchain" /\ InBuildPackage

\* C11: in the toolchain phase download_package is called for the declared
\* entries in declared order (the j-th call is for entry j), and
\* build_package is entered only after a call for every entry has returned
\* success; a call that fails is the last call of the phase, no build_package
\* call was or is made, and the phase reports failure.
C11_PrefetchAllBeforeAnyBuild ==
    /\ \A n \in ToolchainFetches :
          /\ history[n].idx = Cardinality({m \in ToolchainFetches : m <= n})
          /\ history[n].idx <= Len(loaded.toolchain_packages)
          /\ history[n].f = UrlName(loaded.toolchain_packages[history[n].idx])
          /\ history[n].out /= "True" =>
                /\ \A m \in Calls : m > n => history[m].phase /= "toolchain"
                /\ ~ToolchainBuildStarted
                /\ tcResult = "False"
    /\ ToolchainBuildStarted =>
          /\ Cardinality(ToolchainFetches) = Len(loaded.toolchain_packages)
          /\ \A n \in ToolchainFetches :
                /\ history[n].out = "True"
                /\ \A m \in ToolchainBuilds : n < m

\* two entries of which the first declares steps: its archive was fetched,
\* the fetch of the second failed, and the phase has returned
C11_Witness ==
    /\ pc = "tc_return" /\ tcResult = "False"
    /\ Len(loaded.toolchain_packages) = 2
    /\ GetBuildCommands(loaded.toolchain_packages[1]) /= <<>>
    /\ \E m \in ToolchainFetches : \E n \in ToolchainFetches :
          /\ history[m].idx = 1 /\ history[m].out = "True" /\ history[m].net = 1
          /\ history[n].idx = 2 /\ history[n].out = "False"

-----------------------------------------------------------------------------
\* the latest operation of the current build_package call
LastOp == IF trace = <<>> THEN None ELSE trace[Len(trace)].op
LastOut == IF trace = <<>> THEN None ELSE trace[Len(trace)].out

\* C12: the tree that build_package located is one directory of the source
\* cache; it contains the package name and the version whenever the cache has
\* such a directory, and otherwise it starts with the package name; tree
\* location reports that nothing was found only when the cache has neither
\* kind of directory, and build_package then returns failure with no step
\* run.
C12_TreeLocationHeuristic ==
    /\ pc = "pkg_steps" =>
          /\ source_dir \in dirs
          /\ IF MatchNameVersion(dirs, Cur.name, Cur.version) /= {}
             THEN source_dir \in MatchNameVersion(dirs, Cur.name, Cur.version)
             ELSE source_dir \in MatchPrefix(dirs, Cur.name)
    /\ (pc = "pkg_return" /\ LastOp = "locate" /\ LastOut /= "raise") =>
          /\ LastOut = "False"
          /\ MatchNameVersion(dirs, Cur.name, Cur.version) = {}
          /\ MatchPrefix(dirs, Cur.name) = {}
          /\ pkgResult = "False"
          /\ source_dir = NoDir
          /\ RunPositions = {}

\* the cache holds z-1 and zx, package z 1: z-1 was located
C12_Witness ==
    /\ pc = "pkg_steps"
    /\ Cur.name = ZName /\ Cur.version = ZVersion
    /\ {ZDir, ZxDir} \subseteq dirs
    /\ source_dir = ZDir

-----------------------------------------------------------------------------
\* build_package is entered for a package whose archive is in the cache
EnterWithArchive ==
    /\ pc = "pkg_enter"
    /\ Base \subseteq Cur.keys
    /\ Exists(files, SplitLast(Cur.url))

\* a build_package call has returned success after doing nothing before the
\* extraction: no download and no removal of a name-version directory
BuiltFromCache ==
    /\ pc = "pkg_return" /\ pkgResult = "True"
    /\ trace /= <<>> /\ trace[1].op = "extract_archive"

\* C13: build_package called for a package whose archive is in the cache
\* downloads nothing; when no name-version directory had to be removed and
\* the extraction, the location and the N steps succeed, its operations are
\* exactly one extraction, the location of a tree, the N steps in declared
\* order with that tree as working directory and the removal of that tree,
\* and it returns success; afterwards the archive is in the cache and the
\* tree is not.
C13_BuildFromCachedArchive ==
    /\ [][EnterWithArchive =>
            /\ trace' = trace
            /\ files' = files
            /\ pc' = "pkg_rmstale"]_vars
    /\ [](BuiltFromCache =>
            LET N == Len(build_commands) IN
            /\ Len(trace) = N + 3
            /\ trace[1].out = "ok"
            /\ trace[2].op = "locate" /\ trace[2].out = "True"
            /\ trace[2].f = source_dir
            /\ \A j \in 1..N :
                  /\ trace[2 + j].op = "run_command"
                  /\ trace[2 + j].out = "ok"
                  /\ trace[2 + j].h = build_commands[j]
                  /\ trace[2 + j].f = source_dir
            /\ trace[N + 3].op = "rmtree" /\ trace[N + 3].f = source_dir
            /\ Exists(files, SplitLast(Cur.url))
            /\ source_dir \notin dirs)
    /\ []((/\ pc = "pkg_return" /\ source_dir /= NoDir
           /\ \A n \in RunPositions : trace[n].out = "ok"
           /\ Cardinality(RunPositions) = Len(build_commands))
            => pkgResult = "True")

\* z-1.tar.gz was in the cache, three steps: one extraction, the tree z-1,
\* steps A, B, C, the removal of z-1, success
C13_Witness ==
    /\ BuiltFromCache
    /\ phase = "system"
    /\ build_commands = <<"A", "B", "C">>
    /\ source_dir = ZDir
    /\ files[ZArc] = "c1"

-----------------------------------------------------------------------------
\* the directories that were in the cache when the extraction of the current
\* build_package call began
BeforeExtraction ==
    UNION {trace[m].pre : m \in {n \in Positions :
                                    trace[n].op = "extract_archive"}}

\* C14: no build step runs in a directory that was already in the source
\* cache when the extraction of the current build_package call began.
C14_StepsNeverRunInStaleTree ==
    \A n \in RunPositions : trace[n].f \notin BeforeExtraction

-----------------------------------------------------------------------------
\* the stage of build_package an operation belongs to
Stage(op) ==
    CASE op \in {"urlretrieve", "download_file"} -> 1
      [] op \in {"rmtree_stale", "extract_archive"} -> 2
      [] op = "locate" -> 3
      [] op = "run_command" -> 4
      [] OTHER -> 5

\* the operation at position n ended its stage with a failure
StageFailed(n) ==
    /\ trace[n].op /= "urlretrieve"
    /\ Failing(trace[n])

\* C15: the operations of one build_package call follow the stage order
\* fetch, extract, locate, steps: an extraction is attempted only with the
\* archive in the cache and after every download of the call succeeded, tree
\* location only right after a successful extraction, a step only after a
\* tree was located and in that tree; an operation that fails is the last
\* operation of the call, and the call does not return success (it returns
\* False unless the operation raised).
C15_StageOrder ==
    InBuildPackage =>
        /\ \A m \in Positions : \A n \in Positions :
              m < n => Stage(trace[m].op) <= Stage(trace[n].op)
        /\ \A n \in Positions :
              /\ trace[n].op = "extract_archive" =>
                    /\ Exists(files, trace[n].f)
                    /\ \A m \in 1..(n - 1) :
                          trace[m].op /= "extract_archive" /\ trace[m].out /= "False"
              /\ trace[n].op = "locate" =>
                    /\ n > 1
                    /\ trace[n - 1].op = "extract_archive"
                    /\ trace[n - 1].out = "ok"
              /\ trace[n].op = "run_command" =>
                    \E m \in 1..(n - 1) :
                        /\ trace[m].op = "locate" /\ trace[m].out = "True"
                        /\ trace[m].f = trace[n].f
              /\ StageFailed(n) =>
                    /\ n = Len(trace)
                    /\ pc = "pkg_return"
                    /\ pkgResult =
                          IF trace[n].out = "raise" THEN "raised" ELSE "False"

\* the archive was downloaded, its extraction failed, build_package returned
C15_Witness ==
    /\ pc = "pkg_return" /\ pkgResult = "False"
    /\ Len(trace) = 3
    /\ trace[2].op = "download_file" /\ trace[2].out = "True"
    /\ trace[3].op = "extract_archive" /\ trace[3].out = "error"

-----------------------------------------------------------------------------
\* the component operations of the core
Components ==
    {"download_package", "download_file", "extract_archive", "run_command",
     "build_package"}

\* C16: no component operation ends with an exception: build_package,
\* build_toolchain and build_system_packages return True or False, also
\* when the removal of a stale tree fails, when the source cache cannot be
\* listed and when a declaration lacks a field, and so do the Fetcher, the
\* Archive Extractor and the Command Runner.
C16_NoRaisePastBoundary ==
    /\ pkgResult /= "raised"
    /\ tcResult /= "raised"
    /\ sysResult /= "raised"
    /\ \A n \in Calls :
          history[n].op \in Components => history[n].out \in {"True", "False"}

-----------------------------------------------------------------------------
\* the build_package calls of phase ph returned so far
BuildsOf(ph) ==
    {n \in Calls : history[n].op = "build_package" /\ history[n].phase = ph}

\* a build_package call of phase ph is running
Building(ph) == phase = ph /\ InBuildPackage /\ pc /= "pkg_return"

-----------------------------------------------------------------------------
\* C18: run_command returns True exactly for a command that ran and exited
\* with status 0 (the step loop then goes on to the next step), and returns
\* False, without raising, for a command that exited with another status and
\* for a command that could not be launched (the step loop then stops and
\* build_package returns False).
C18_RunCommandReportsFailure ==
    InBuildPackage => \A n \in RunPositions :
        IF trace[n].out = "ok"
        THEN \/ n < Len(trace)
             \/ pc = "pkg_steps" /\ k = trace[n].k + 1 /\ pkgResult = None
        ELSE /\ trace[n].out \in {"nonzero", "launch_error"}
             /\ n = Len(trace)
             /\ pc = "pkg_return"
             /\ k = trace[n].k
             /\ pkgResult = "False"

\* the second step of a package could not be launched
C18_Witness ==
    /\ pc = "pkg_return" /\ pkgResult = "False"
    /\ Len(trace) > 1
    /\ trace[Len(trace)].op = "run_command"
    /\ trace[Len(trace)].out = "launch_error"
    /\ trace[Len(trace) - 1].op = "run_command"
    /\ trace[Len(trace) - 1].out = "ok"

-----------------------------------------------------------------------------
\* C19: every package declaration of the configuration has, at every point
\* of a run, the keys and the values it had when the configuration was
\* loaded.
C19_DeclarationsReadOnly ==
    /\ ToolchainPackages = LoadedListOf("toolchain")
    /\ Packages = LoadedListOf("system")

-----------------------------------------------------------------------------
\* build_toolchain has returned or raised
ToolchainOver == tcResult /= None

\* download_package has returned success for every toolchain entry
AllToolchainFetched ==
    /\ Cardinality(ToolchainFetches) = Len(loaded.toolchain_packages)
    /\ \A n \in ToolchainFetches : history[n].out = "True"

\* C20: build_toolchain called with an empty or missing list returns
\* failure, build() then returns failure and nothing of the system-packages
\* phase happens; called with a non-empty list of entries that all have no
\* build step, and whose fetches all succeed, it returns success.
C20_EmptyToolchainFailsMetadataOnlySucceeds ==
    ToolchainOver =>
        /\ loaded.toolchain_packages = <<>> =>
              /\ tcResult = "False"
              /\ ~SystemActivity
              /\ pc = "done" => buildResult = "False"
        /\ (/\ loaded.toolchain_packages /= <<>>
            /\ \A i \in 1..Len(loaded.toolchain_packages) :
                  MetadataOnly(loaded.toolchain_packages[i])
            /\ AllToolchainFetched)
              => tcResult = "True"

-----------------------------------------------------------------------------
\* the latest operation is a download_file that returned False
FetchJustFailed ==
    /\ LastOp = "download_file"
    /\ LastOut = "False"

\* C21: after a download_file that returned False, whatever the reason, no
\* file is at its destination; and a download_package call that directly
\* follows a failed call for the same URL downloads again instead of taking
\* the cache-hit path.
C21_FailedFetchLeavesNoFile ==
    /\ FetchJustFailed => files[trace[Len(trace)].f] = NoFile
    /\ \A n \in FetchCalls :
          (/\ n > 1
           /\ (n - 1) \in FetchCalls
           /\ history[n - 1].f = history[n].f
           /\ history[n - 1].out = "False")
              => history[n].net = 1

-----------------------------------------------------------------------------
\* C23: no operation of a run removes or replaces a file of the source
\* cache: a file that is in the cache before a step of build_package, of a
\* phase driver or of the Fetcher is in the cache, with the same content,
\* after it.
C23_ArchivesNeverRemoved ==
    [][\A f \in FileUniverse :
          files[f] /= NoFile => files'[f] = files[f]]_vars

\* the run found z-1.tar.gz, with a content other than the declared one, and
\* no y-2.zip: y-2.zip was downloaded, z was built from the archive found,
\* which is still there
C23_Witness ==
    /\ files[ZArc] = "c2"
    /\ files[YArc] \in Contents
    /\ \E n \in ToolchainFetches :
          history[n].f = YArc /\ history[n].net = 1 /\ history[n].out = "True"
    /\ \E n \in ToolchainBuilds :
          history[n].f = ZArc /\ history[n].out = "True"

-----------------------------------------------------------------------------
\* build() has returned a boolean
BuildReported == pc = "done" /\ buildResult \in {"True", "False"}

\* C22: when every external operation returns, every run of build() reaches
\* its end with True or False reported, and after that nothing is
\* downloaded, extracted, removed or run.
C22_BuildTerminates ==
    /\ <>(entry = "build" => BuildReported)
    /\ [][BuildReported =>
            UNCHANGED <<files, dirs, history, trace, buildResult, pc>>]_vars

\* build() has returned True after package builds in both phases
C22_Witness ==
    /\ BuildReported /\ buildResult = "True"
    /\ BuildsOf("toolchain") /= {}
    /\ BuildsOf("system") /= {}

====
